---- MODULE Spec2Model ----
(***************************************************************************)
(* FastMission: asynchronous batch ingestion of a CSV of products.         *)
(*                                                                         *)
(* upload_csv persists a Lote and its ItemCadastral rows and schedules     *)
(* processar_lote_task; a worker runs the task, which calls the external   *)
(* classifier once per pending item and commits each result.  The job      *)
(* queue (claim, lease, ack, recover) is not part of the repository's      *)
(* source and is modelled from the specification's section 4.3.  Clients   *)
(* poll get_status; SpecAPI is the pipeline together with these polls.     *)
(***************************************************************************)
EXTENDS Integers, Sequences, FiniteSets, TLC

\* ---------------------------------------------------------------- bounds
MaxItens == 2
MaxCrashes == 1

\* Two interchangeable worker processes and two uploads.
Workers == {1, 2}
LoteIds == {1, 2}

\* NULL of a text column; a nullable number is <<>> or <<n>>.
NULL == "NULL"
NoNumber == <<>>
Number(n) == <<n>>

\* Rows a CSV may hold (descricao, ncm): the NCM is text, with leading zero.
CSVRows ==
    { [descricao |-> "BOVINO REPRODUTOR", ncm |-> "0102.31.00"] }

\* The parsed CSV: any sequence of at most MaxItens rows (possibly empty).
RECURSIVE SeqsUpTo(_, _)
SeqsUpTo(S, n) ==
    IF n = 0 THEN { <<>> }
    ELSE LET shorter == SeqsUpTo(S, n - 1)
         IN  shorter \cup { Append(s, x) : s \in { t \in shorter : Len(t) = n - 1 }, x \in S }

Linhas == SeqsUpTo(CSVRows, MaxItens)

\* What the LLM may answer (the JSON of the prompt in validate_ncm.py).
RespostasAI ==
    { [correto |-> TRUE,  ncm_sugerido |-> "0102.31.00",
       explicacao |-> "ok", confianca |-> 95],
      [correto |-> FALSE, ncm_sugerido |-> "1806.32.00",
       explicacao |-> "Produto descrito como 'chocolate' mas NCM aponta para 'wafer'",
       confianca |-> 85] }

\* An answer the LLM may also give: "not correct", with the very code it was
\* asked about as its suggestion.
RespostasAIMesmoNcm ==
    { [correto |-> FALSE, ncm_sugerido |-> "0102.31.00",
       explicacao |-> "NCM nao corresponde a descricao", confianca |-> 40] }

\* ----------------------------------------------------------------- state
VARIABLES
    lotes,        \* table lotes: id -> row (status "NONE" = no such row)
    itens,        \* table itens_cadastrais: lote id -> sequence of rows
    up,           \* the upload_csv request in progress
    fila,         \* job queue: lote id -> number of jobs waiting
    lease,        \* job queue: lote id -> the claim on its job
    wk,           \* worker -> position and locals of processar_lote_task
    execucoes,    \* history: lote id -> number of runs started
    escritas,     \* history: lote id -> per item, how often it was written (0, 1, many)
    reinvocado,   \* history: the classifier was called for a non-pending item
    crashes,      \* history: number of worker crashes so far
    resposta,     \* the last answer of GET /lotes/{lote_id}/status
    recusados,    \* history: the Lotes whose POST /upload ended in an error
    tela          \* the UploadCSV component: its React state and handleUpload's position

vars == <<lotes, itens, up, fila, lease, wk, execucoes, escritas, reinvocado, crashes,
          resposta, recusados, tela>>

LoteStatus == {"PENDENTE", "PROCESSANDO", "CONCLUIDO", "ERRO"}
TerminalLote == {"CONCLUIDO", "FAILED_PARTIAL", "ERRO"}

LoteNone == [status |-> "NONE", total_itens |-> 0]
UpIdle == [pc |-> "idle", lote |-> 0, linhas |-> <<>>]
WkIdle == [pc |-> "idle", lote |-> 0, run |-> 0, itens |-> <<>>,
           resposta_ai |-> NULL, resultado |-> NULL, erro |-> FALSE, ok |-> FALSE]
LeaseNone == [st |-> "none", by |-> 0]
SemResposta == [http |-> 0]
\* useState(null), useState(false), useState(null), useState(false); a file is
\* <<>> or <<f>>; enviado is the file handed to uploadCSV.
TelaInicial == [file |-> <<>>, uploading |-> FALSE, error |-> NULL, dragActive |-> FALSE,
                pc |-> "idle", enviado |-> <<>>, resultado |-> "nenhum", chamadas |-> <<>>]

\* ------------------------------------------------------------- data model
Lote(n) == [status |-> "PENDENTE", total_itens |-> n]

\* Variant: the NCM column is an Integer, "0102.31.00" is stored as 102.
ItemCadastralNcmInteiro(linha) ==
    [descricao |-> linha.descricao,
     ncm_original |-> "102",
     ncm_sugerido |-> NULL,
     status_validacao |-> "PENDENTE",
     motivo_divergencia |-> NULL,
     confianca_ai |-> NoNumber,
     data_processamento |-> NULL]

ItemCadastral(linha) ==
    [descricao |-> linha.descricao,
     ncm_original |-> linha.ncm,
     ncm_sugerido |-> NULL,
     status_validacao |-> "PENDENTE",
     motivo_divergencia |-> NULL,
     confianca_ai |-> NoNumber,
     data_processamento |-> NULL]

\* ---------------------------------------------------- skills/validate_ncm
\* Variant: a divergence is reported with the standard note, not with the
\* explanation of the LLM.
validar_ncm_nota_fixa(descricao, ncm_original, resposta_ai) ==
    [ncm_sugerido |-> IF resposta_ai.correto THEN ncm_original
                      ELSE resposta_ai.ncm_sugerido,
     status |-> IF resposta_ai.correto THEN "VALIDO" ELSE "DIVERGENTE",
     explicacao |-> "Classificacao correta segundo Merceologia",
     confianca |-> resposta_ai.confianca]

validar_ncm(descricao, ncm_original, resposta_ai) ==
    IF resposta_ai.correto
    THEN [ncm_sugerido |-> ncm_original,
          status |-> "VALIDO",
          explicacao |-> "Classificacao correta segundo Merceologia",
          confianca |-> resposta_ai.confianca]
    ELSE [ncm_sugerido |-> resposta_ai.ncm_sugerido,
          status |-> "DIVERGENTE",
          explicacao |-> resposta_ai.explicacao,
          confianca |-> resposta_ai.confianca]

\* ------------------------------------------------------------- upload_csv
Init ==
    /\ lotes = [l \in LoteIds |-> LoteNone]
    /\ itens = [l \in LoteIds |-> <<>>]
    /\ up = UpIdle
    /\ fila = [l \in LoteIds |-> 0]
    /\ lease = [l \in LoteIds |-> LeaseNone]
    /\ wk = [w \in Workers |-> WkIdle]
    /\ execucoes = [l \in LoteIds |-> 0]
    /\ escritas = [l \in LoteIds |-> <<>>]
    /\ reinvocado = FALSE
    /\ crashes = 0
    /\ resposta = SemResposta
    /\ recusados = {}
    /\ tela = TelaInicial

\* Variant: the task is scheduled as soon as the Lote row is committed.
UploadCriarLoteEAgendar(l, linhas) ==
    /\ up.pc = "idle"
    /\ lotes[l].status = "NONE"
    /\ \A k \in LoteIds : k < l => lotes[k].status # "NONE"
    /\ lotes' = [lotes EXCEPT ![l] = Lote(Len(linhas))]
    /\ fila' = [fila EXCEPT ![l] = @ + 1]
    /\ up' = [pc |-> "lote", lote |-> l, linhas |-> linhas]
    /\ UNCHANGED <<itens, lease, wk, execucoes, escritas, reinvocado, crashes, resposta, recusados, tela>>

\* Passo 3: the Lote row is added and committed.
UploadCriarLote(l, linhas) ==
    /\ up.pc = "idle"
    /\ lotes[l].status = "NONE"
    /\ \A k \in LoteIds : k < l => lotes[k].status # "NONE"
    /\ lotes' = [lotes EXCEPT ![l] = Lote(Len(linhas))]
    /\ up' = [pc |-> "lote", lote |-> l, linhas |-> linhas]
    /\ UNCHANGED <<itens, fila, lease, wk, execucoes, escritas, reinvocado, crashes, resposta, recusados, tela>>

\* Passo 4: every item row is added, then one commit.
UploadCriarItens ==
    /\ up.pc = "lote"
    /\ itens' = [itens EXCEPT ![up.lote] =
                    [i \in 1..Len(up.linhas) |-> ItemCadastral(up.linhas[i])]]
    /\ escritas' = [escritas EXCEPT ![up.lote] = [i \in 1..Len(up.linhas) |-> 0]]
    /\ up' = [up EXCEPT !.pc = "itens"]
    /\ UNCHANGED <<lotes, fila, lease, wk, execucoes, reinvocado, crashes, resposta, recusados, tela>>

\* Passo 5: processar_lote_task.delay(lote.id), then the 202 response.
UploadAgendar ==
    /\ up.pc = "itens"
    /\ fila' = [fila EXCEPT ![up.lote] = @ + 1]
    /\ up' = UpIdle
    /\ UNCHANGED <<lotes, itens, lease, wk, execucoes, escritas, reinvocado, crashes, resposta, recusados, tela>>

\* Variant: the error of .delay is caught and the 202 is returned all the same.
UploadAgendarFalhaCalada ==
    /\ up.pc = "itens"
    /\ up' = UpIdle
    /\ UNCHANGED <<lotes, itens, fila, lease, wk, execucoes, escritas, reinvocado,
                   crashes, resposta, recusados, tela>>

\* Passo 5 when the broker cannot be reached: .delay raises, nothing catches
\* it in upload_csv, the request ends with an error and no job is queued.
UploadAgendarFalha ==
    /\ up.pc = "itens"
    /\ recusados' = recusados \cup {up.lote}
    /\ up' = UpIdle
    /\ UNCHANGED <<lotes, itens, fila, lease, wk, execucoes, escritas, reinvocado,
                   crashes, resposta, tela>>

\* --------------------------------------------------------------- job queue
\* Variant: the claimed job stays in the queue.
DequeueSemRemover(w, l) ==
    /\ wk[w].pc = "idle"
    /\ fila[l] > 0
    /\ lease' = [lease EXCEPT ![l] = [st |-> "held", by |-> w]]
    /\ execucoes' = [execucoes EXCEPT ![l] = IF @ < 3 THEN @ + 1 ELSE @]
    /\ wk' = [wk EXCEPT ![w] = [WkIdle EXCEPT !.pc = "start", !.lote = l,
                                              !.run = execucoes[l] + 1]]
    /\ UNCHANGED <<lotes, itens, up, fila, escritas, reinvocado, crashes, resposta, recusados, tela>>

\* dequeue: one idle worker claims a waiting job and holds its lease (the
\* workers being interchangeable, the lowest-numbered idle one takes it).
Dequeue(w, l) ==
    /\ wk[w].pc = "idle"
    /\ \A v \in Workers : v < w => wk[v].pc # "idle"
    /\ fila[l] > 0
    /\ fila' = [fila EXCEPT ![l] = @ - 1]
    /\ lease' = [lease EXCEPT ![l] = [st |-> "held", by |-> w]]
    /\ execucoes' = [execucoes EXCEPT ![l] = @ + 1]
    /\ wk' = [wk EXCEPT ![w] = [WkIdle EXCEPT !.pc = "start", !.lote = l,
                                              !.run = execucoes[l] + 1]]
    /\ UNCHANGED <<lotes, itens, up, escritas, reinvocado, crashes, resposta, recusados, tela>>

\* ack: the runner that finished its run releases the claim.
Ack(w) ==
    /\ wk[w].pc = "ack"
    /\ lease' = [lease EXCEPT ![wk[w].lote] = LeaseNone]
    /\ wk' = [wk EXCEPT ![w] = WkIdle]
    /\ UNCHANGED <<lotes, itens, up, fila, execucoes, escritas, reinvocado, crashes, resposta, recusados, tela>>

\* The lease window of a claim whose runner died runs out.
LeaseExpire(l) ==
    /\ lease[l].st = "orphan"
    /\ lease' = [lease EXCEPT ![l].st = "expired"]
    /\ UNCHANGED <<lotes, itens, up, fila, wk, execucoes, escritas, reinvocado, crashes, resposta, recusados, tela>>

\* Variant: the expired claim is dropped and no job is queued again.
RecoverSemFila(l) ==
    /\ lease[l].st = "expired"
    /\ lotes[l].status = "PROCESSANDO"
    /\ lease' = [lease EXCEPT ![l] = LeaseNone]
    /\ UNCHANGED <<lotes, itens, up, fila, wk, execucoes, escritas, reinvocado, crashes, resposta, recusados, tela>>

\* recover: a Lote stuck in PROCESSANDO whose lease expired gets a new job.
Recover(l) ==
    /\ lease[l].st = "expired"
    /\ lotes[l].status = "PROCESSANDO"
    /\ fila' = [fila EXCEPT ![l] = @ + 1]
    /\ lease' = [lease EXCEPT ![l] = LeaseNone]
    /\ UNCHANGED <<lotes, itens, up, wk, execucoes, escritas, reinvocado, crashes, resposta, recusados, tela>>

\* The worker process dies in the middle of a run: its locals and whatever
\* it had not committed are lost, its claim is left behind.
Crash(w) ==
    /\ wk[w].pc # "idle"
    /\ crashes < MaxCrashes
    /\ crashes' = crashes + 1
    /\ lease' = [lease EXCEPT ![wk[w].lote].st = "orphan"]
    /\ wk' = [wk EXCEPT ![w] = WkIdle]
    /\ UNCHANGED <<lotes, itens, up, fila, execucoes, escritas, reinvocado, resposta, recusados, tela>>

\* ------------------------------------------------------ processar_lote_task
\* Variant: .first() for .all(), only the first pending item is loaded.
ItensPendentesPrimeiro(l) ==
    LET todos == SelectSeq([i \in 1..Len(itens[l]) |-> i],
                           LAMBDA i : itens[l][i].status_validacao = "PENDENTE")
    IN  IF todos = <<>> THEN <<>> ELSE <<Head(todos)>>

\* Variant: the status filter is missing from the query.
ItensTodos(l) ==
    [i \in 1..Len(itens[l]) |-> i]

\* The indices of the items of lote l still PENDENTE, in table order.
ItensPendentes(l) ==
    SelectSeq([i \in 1..Len(itens[l]) |-> i],
              LAMBDA i : itens[l][i].status_validacao = "PENDENTE")

\* Variant: only the status is stored.
AtualizarItemSoStatus(item, resultado) ==
    [item EXCEPT !.status_validacao = resultado.status]

\* Variant: the status is stored, the suggestion is not.
AtualizarItemParcial(item, resultado) ==
    [item EXCEPT !.status_validacao = resultado.status,
                 !.motivo_divergencia = resultado.explicacao,
                 !.confianca_ai = Number(resultado.confianca)]

\* item.ncm_sugerido = ..., item.status_validacao = ..., and so on.
AtualizarItem(item, resultado) ==
    [item EXCEPT !.ncm_sugerido = resultado.ncm_sugerido,
                 !.status_validacao = resultado.status,
                 !.motivo_divergencia = resultado.explicacao,
                 !.confianca_ai = Number(resultado.confianca)]

\* lote.status = "PROCESSANDO"; db.commit()
TaskMarcarProcessando(w) ==
    /\ wk[w].pc = "start"
    /\ lotes' = [lotes EXCEPT ![wk[w].lote].status = "PROCESSANDO"]
    /\ wk' = [wk EXCEPT ![w].pc = "buscar"]
    /\ UNCHANGED <<itens, up, fila, lease, execucoes, escritas, reinvocado, crashes, resposta, recusados, tela>>

\* itens = query(status_validacao == "PENDENTE").all()
TaskBuscarItens(w) ==
    /\ wk[w].pc = "buscar"
    /\ wk' = [wk EXCEPT ![w].itens = ItensPendentes(wk[w].lote), ![w].pc = "loop"]
    /\ UNCHANGED <<lotes, itens, up, fila, lease, execucoes, escritas, reinvocado, crashes, resposta, recusados, tela>>

\* Variant: the status of the item is committed as soon as the script has
\* answered, before the other fields.
TaskChamarAIGravaStatus(w, resposta_ai) ==
    /\ wk[w].pc = "loop"
    /\ wk[w].itens # <<>>
    /\ LET l == wk[w].lote
           i == Head(wk[w].itens)
           item == itens[l][i]
           resultado == validar_ncm(item.descricao, item.ncm_original, resposta_ai)
       IN  /\ wk' = [wk EXCEPT ![w].resposta_ai = resposta_ai,
                                ![w].resultado = resultado,
                                ![w].pc = "update"]
           /\ itens' = [itens EXCEPT ![l][i].status_validacao = resultado.status]
           /\ reinvocado' = (reinvocado \/ item.status_validacao # "PENDENTE")
    /\ UNCHANGED <<lotes, up, fila, lease, execucoes, escritas, crashes, resposta, recusados, tela>>

\* resultado = chamar_ai_script(item.descricao, item.ncm_original): the
\* script answered with parseable JSON.
TaskChamarAI(w, resposta_ai) ==
    /\ wk[w].pc = "loop"
    /\ wk[w].itens # <<>>
    /\ LET item == itens[wk[w].lote][Head(wk[w].itens)]
       IN  /\ wk' = [wk EXCEPT ![w].resposta_ai = resposta_ai,
                                ![w].resultado =
                        validar_ncm(item.descricao, item.ncm_original, resposta_ai),
                                ![w].pc = "update"]
           /\ reinvocado' = (reinvocado \/ item.status_validacao # "PENDENTE")
    /\ UNCHANGED <<lotes, itens, up, fila, lease, execucoes, escritas, crashes, resposta, recusados, tela>>

\* chamar_ai_script raises: the script died or printed no parseable JSON.
TaskAIErro(w) ==
    /\ wk[w].pc = "loop"
    /\ wk[w].itens # <<>>
    /\ LET item == itens[wk[w].lote][Head(wk[w].itens)]
       IN  reinvocado' = (reinvocado \/ item.status_validacao # "PENDENTE")
    /\ wk' = [wk EXCEPT ![w].erro = TRUE, ![w].pc = "except"]
    /\ UNCHANGED <<lotes, itens, up, fila, lease, execucoes, escritas, crashes, resposta, recusados, tela>>

\* Variant: the loop does not move on to the next item.
TaskAtualizarItemSemAvanco(w) ==
    /\ wk[w].pc = "update"
    /\ LET l == wk[w].lote
           i == Head(wk[w].itens)
       IN  /\ itens' = [itens EXCEPT ![l][i] = AtualizarItem(@, wk[w].resultado)]
           /\ escritas' = [escritas EXCEPT ![l][i] = IF @ < 2 THEN @ + 1 ELSE @]
    /\ wk' = [wk EXCEPT ![w].resposta_ai = NULL, ![w].resultado = NULL, ![w].pc = "loop"]
    /\ UNCHANGED <<lotes, up, fila, lease, execucoes, reinvocado, crashes, resposta, recusados, tela>>

\* The four assignments to the item and db.commit(); next item of the loop.
TaskAtualizarItem(w) ==
    /\ wk[w].pc = "update"
    /\ LET l == wk[w].lote
           i == Head(wk[w].itens)
       IN  /\ itens' = [itens EXCEPT ![l][i] = AtualizarItem(@, wk[w].resultado)]
           /\ escritas' = [escritas EXCEPT ![l][i] = IF @ < 2 THEN @ + 1 ELSE @]
    /\ wk' = [wk EXCEPT ![w].itens = Tail(@), ![w].resposta_ai = NULL,
                        ![w].resultado = NULL, ![w].pc = "loop"]
    /\ UNCHANGED <<lotes, up, fila, lease, execucoes, reinvocado, crashes, resposta, recusados, tela>>

\* Variant: the Lote is marked CONCLUIDO inside the loop.
TaskConcluirCedo(w) ==
    /\ wk[w].pc = "loop"
    /\ lotes' = [lotes EXCEPT ![wk[w].lote].status = "CONCLUIDO"]
    /\ wk' = [wk EXCEPT ![w].ok = (wk[w].itens = <<>>),
                        ![w].pc = IF wk[w].itens = <<>> THEN "ack" ELSE "loop"]
    /\ UNCHANGED <<itens, up, fila, lease, execucoes, escritas, reinvocado, crashes, resposta, recusados, tela>>

\* Variant: a divergent item is taken for a failure of the Lote.
TaskConcluirDivergenteErro(w) ==
    /\ wk[w].pc = "loop"
    /\ wk[w].itens = <<>>
    /\ lotes' = [lotes EXCEPT ![wk[w].lote].status =
                    IF \E i \in 1..Len(itens[wk[w].lote]) :
                          itens[wk[w].lote][i].status_validacao = "DIVERGENTE"
                    THEN "ERRO" ELSE "CONCLUIDO"]
    /\ wk' = [wk EXCEPT ![w].ok = TRUE, ![w].pc = "ack"]
    /\ UNCHANGED <<itens, up, fila, lease, execucoes, escritas, reinvocado, crashes, resposta, recusados, tela>>

\* After the loop: lote.status = "CONCLUIDO"; db.commit()
TaskConcluir(w) ==
    /\ wk[w].pc = "loop"
    /\ wk[w].itens = <<>>
    /\ lotes' = [lotes EXCEPT ![wk[w].lote].status = "CONCLUIDO"]
    /\ wk' = [wk EXCEPT ![w].ok = TRUE, ![w].pc = "ack"]
    /\ UNCHANGED <<itens, up, fila, lease, execucoes, escritas, reinvocado, crashes, resposta, recusados, tela>>

\* except Exception: lote.status = "ERRO"; db.commit()
TaskExcept(w) ==
    /\ wk[w].pc = "except"
    /\ lotes' = [lotes EXCEPT ![wk[w].lote].status = "ERRO"]
    /\ wk' = [wk EXCEPT ![w].pc = "ack"]
    /\ UNCHANGED <<itens, up, fila, lease, execucoes, escritas, reinvocado, crashes, resposta, recusados, tela>>

\* -------------------------------------------------------------- get_status
\* Variant: the filter of the count is inverted (== "PENDENTE").
itens_pendentes(l) ==
    Cardinality({ i \in 1..Len(itens[l]) : itens[l][i].status_validacao = "PENDENTE" })

\* count() of the items of lote l whose status_validacao != "PENDENTE".
itens_processados(l) ==
    Cardinality({ i \in 1..Len(itens[l]) : itens[l][i].status_validacao # "PENDENTE" })

\* progresso = (itens_processados / total_itens) * 100: a float, kept as the
\* exact fraction num / den.
progresso(processados, total_itens) ==
    [num |-> processados * 100, den |-> total_itens]

\* Variant: the count is taken from the progress of the runner at work on the
\* Lote, not from the table.
get_status_do_runner(l) ==
    IF lotes[l].status = "NONE" THEN [http |-> 404, lote |-> l]
    ELSE IF lotes[l].total_itens = 0 THEN [http |-> 500, lote |-> l]
    ELSE LET feitos == IF \E w \in Workers : wk[w].lote = l /\ wk[w].pc \in {"loop", "update"}
                       THEN lotes[l].total_itens -
                            Len(wk[CHOOSE w \in Workers : wk[w].lote = l].itens)
                       ELSE IF lotes[l].status = "CONCLUIDO"
                            THEN lotes[l].total_itens ELSE 0
         IN  [http |-> 200,
              lote |-> l,
              status |-> lotes[l].status,
              progresso |-> progresso(feitos, lotes[l].total_itens),
              total_itens |-> lotes[l].total_itens,
              itens_processados |-> feitos]

\* The answer of the endpoint computed from the tables: 404 when there is no
\* such Lote, 500 when the division raises ZeroDivisionError, else the body.
get_status(l) ==
    IF lotes[l].status = "NONE" THEN [http |-> 404, lote |-> l]
    ELSE IF lotes[l].total_itens = 0 THEN [http |-> 500, lote |-> l]
    ELSE [http |-> 200,
          lote |-> l,
          status |-> lotes[l].status,
          progresso |-> progresso(itens_processados(l), lotes[l].total_itens),
          total_itens |-> lotes[l].total_itens,
          itens_processados |-> itens_processados(l)]

\* Variant: the poll itself closes a Lote whose items are all processed.
GetStatusFechaLote(l) ==
    /\ resposta' = get_status(l)
    /\ lotes' = [lotes EXCEPT ![l].status =
                    IF @ = "PROCESSANDO" /\ itens_processados(l) = lotes[l].total_itens
                    THEN "CONCLUIDO" ELSE @]
    /\ UNCHANGED <<itens, up, fila, lease, wk, execucoes, escritas, reinvocado, crashes, recusados, tela>>

\* One poll of GET /lotes/{lote_id}/status.
GetStatus(l) ==
    /\ resposta' = get_status(l)
    /\ UNCHANGED <<lotes, itens, up, fila, lease, wk, execucoes, escritas, reinvocado,
                   crashes, recusados, tela>>

\* ------------------------------------------------------------- listar_itens
\* GET /lotes/{lote_id}/itens: the items of the Lote in table order, only the
\* DIVERGENTE ones when apenas_divergentes is set; there is no other filter.
listar_itens(l, apenas_divergentes) ==
    IF apenas_divergentes
    THEN SelectSeq(itens[l], LAMBDA item : item.status_validacao = "DIVERGENTE")
    ELSE itens[l]

\* ------------------------------------------------------------ specification
Next ==
    \/ \E l \in LoteIds, linhas \in Linhas : UploadCriarLote(l, linhas)
    \/ UploadCriarItens
    \/ UploadAgendar
    \/ \E w \in Workers, l \in LoteIds : Dequeue(w, l)
    \/ \E w \in Workers : TaskMarcarProcessando(w)
    \/ \E w \in Workers : TaskBuscarItens(w)
    \/ \E w \in Workers, r \in RespostasAI : TaskChamarAI(w, r)
    \/ \E w \in Workers : TaskAIErro(w)
    \/ \E w \in Workers : TaskAtualizarItem(w)
    \/ \E w \in Workers : TaskConcluir(w)
    \/ \E w \in Workers : TaskExcept(w)
    \/ \E w \in Workers : Ack(w)
    \/ \E w \in Workers : Crash(w)
    \/ \E l \in LoteIds : LeaseExpire(l)
    \/ \E l \in LoteIds : Recover(l)

Spec == Init /\ [][Next]_vars

\* The worker process keeps running its task unless it crashes (the steps of
\* one worker exclude each other, so one condition covers them), an idle
\* worker takes a waiting job, the classifier call returns, a lease window
\* runs out and recover is run again and again.
RunnerStep(w) ==
    \/ TaskMarcarProcessando(w)
    \/ TaskBuscarItens(w)
    \/ \E r \in RespostasAI : TaskChamarAI(w, r)
    \/ TaskAIErro(w)
    \/ TaskAtualizarItem(w)
    \/ TaskConcluir(w)
    \/ TaskExcept(w)
    \/ Ack(w)

\* The steps of the queue on one Lote: they exclude each other as well.
QueueStep(l) ==
    \/ \E w \in Workers : Dequeue(w, l)
    \/ LeaseExpire(l)
    \/ Recover(l)

Fairness ==
    /\ \A w \in Workers : WF_vars(RunnerStep(w))
    /\ \A l \in LoteIds : WF_vars(QueueStep(l))

FairSpec == Spec /\ Fairness

\* The same scheduling when nothing is assumed of the classifier: the steps
\* of the task itself go on, but subprocess.run waits for the script without
\* a timeout, so whether the call ever returns or raises is up to the script.
RunnerStepSemClassificador(w) ==
    \/ TaskMarcarProcessando(w)
    \/ TaskBuscarItens(w)
    \/ TaskAtualizarItem(w)
    \/ TaskConcluir(w)
    \/ TaskExcept(w)
    \/ Ack(w)

FairnessSemClassificador ==
    /\ \A w \in Workers : WF_vars(RunnerStepSemClassificador(w))
    /\ \A l \in LoteIds : WF_vars(QueueStep(l))

FairSpecSemClassificador == Spec /\ FairnessSemClassificador

\* The pipeline with a broker that may be unreachable when a task is scheduled.
NextQueueError ==
    \/ Next
    \/ UploadAgendarFalha

SpecQueueError == Init /\ [][NextQueueError]_vars

\* ------------------------------------------------------------ LoteDetalhes
\* The page of one Lote: useQuery fetches the status when the page is mounted
\* and again every refetchInterval(data) ms, `resposta` being its data.
RefetchMs == 5000

\* Variant: the page polls until the Lote is CONCLUIDO.
refetchIntervalAteConcluido(data) ==
    IF data.http = 200 /\ data.status # "CONCLUIDO" THEN RefetchMs ELSE 0

\* refetchInterval: data?.status === 'PENDENTE' ? 5000 : false (0 for false).
refetchInterval(data) ==
    IF data.http = 200 /\ data.status = "PENDENTE" THEN RefetchMs ELSE 0

\* The page is opened on a Lote that exists: first fetch.
Montar(l) ==
    /\ resposta = SemResposta
    /\ lotes[l].status # "NONE"
    /\ resposta' = get_status(l)
    /\ UNCHANGED <<lotes, itens, up, fila, lease, wk, execucoes, escritas, reinvocado,
                   crashes, recusados, tela>>

\* The interval fires and the status is fetched again.
Refetch(l) ==
    /\ resposta.http # 0
    /\ resposta.lote = l
    /\ refetchInterval(resposta) > 0
    /\ resposta' = get_status(l)
    /\ UNCHANGED <<lotes, itens, up, fila, lease, wk, execucoes, escritas, reinvocado,
                   crashes, recusados, tela>>

NextCliente ==
    \/ Next
    \/ \E l \in LoteIds : Montar(l)
    \/ \E l \in LoteIds : Refetch(l)

SpecCliente == Init /\ [][NextCliente]_vars

\* The pipeline with an LLM that may also answer with RespostasAIMesmoNcm.
NextMesmoNcm ==
    \/ Next
    \/ \E w \in Workers, r \in RespostasAIMesmoNcm : TaskChamarAI(w, r)

SpecMesmoNcm == Init /\ [][NextMesmoNcm]_vars

\* The pipeline together with the clients polling the status endpoint.
NextAPI ==
    \/ Next
    \/ \E l \in LoteIds : GetStatus(l)

SpecAPI == Init /\ [][NextAPI]_vars

\* ------------------------------------------------------------------ claims
ItemIds(l) == 1..Len(itens[l])
Pendente(l, i) == itens[l][i].status_validacao = "PENDENTE"
TodosTerminais(l) == \A i \in ItemIds(l) : ~Pendente(l, i)
Ativos(l) == { w \in Workers : wk[w].pc # "idle" /\ wk[w].lote = l }
RangeOf(s) == { s[k] : k \in 1..Len(s) }

\* C1: a Lote in CONCLUIDO (or FAILED_PARTIAL) has no item still PENDENTE:
\* the terminal transition comes after the last item became terminal.
C1_ConcluidoSemPendentes ==
    \A l \in LoteIds :
        lotes[l].status \in {"CONCLUIDO", "FAILED_PARTIAL"} => TodosTerminais(l)

W1_ConcluidoDoisItens ==
    \E l \in LoteIds :
        /\ lotes[l].status = "CONCLUIDO"
        /\ Len(itens[l]) = 2
        /\ itens[l][1].status_validacao = "DIVERGENTE"
        /\ itens[l][2].status_validacao = "VALIDO"

\* C2: when the classifier failed for one item of a run, at the end of that
\* run the item is FAILED, no item of the Lote is left PENDENTE and the Lote
\* has not been failed as a whole.
C2_FalhaNaoAbortaLote ==
    \A w \in Workers :
        (wk[w].pc = "ack" /\ wk[w].erro) =>
            /\ TodosTerminais(wk[w].lote)
            /\ \E i \in ItemIds(wk[w].lote) :
                   itens[wk[w].lote][i].status_validacao = "FAILED"
            /\ lotes[wk[w].lote].status # "ERRO"

\* C3: when a run has ended and every item of the Lote is terminal, the Lote
\* is CONCLUIDO iff every item is VALIDO or DIVERGENTE, and FAILED_PARTIAL iff
\* some item is FAILED; divergent items alone do not fail the Lote.
C3_EstadoFinalDoLote ==
    \A w \in Workers :
        (wk[w].pc = "ack" /\ TodosTerminais(wk[w].lote)) =>
            LET l == wk[w].lote
            IN  /\ lotes[l].status = "CONCLUIDO" <=>
                      \A i \in ItemIds(l) :
                          itens[l][i].status_validacao \in {"VALIDO", "DIVERGENTE"}
                /\ lotes[l].status = "FAILED_PARTIAL" <=>
                      \E i \in ItemIds(l) : itens[l][i].status_validacao = "FAILED"

W3_FimComDivergente ==
    \E w \in Workers :
        /\ wk[w].pc = "ack"
        /\ Len(itens[wk[w].lote]) = 2
        /\ \A i \in ItemIds(wk[w].lote) :
              itens[wk[w].lote][i].status_validacao = "DIVERGENTE"
        /\ lotes[wk[w].lote].status = "CONCLUIDO"

\* C4: once a Lote is CONCLUIDO, FAILED_PARTIAL or ERRO, no step changes its
\* status.
C4_TerminalNaoMuda ==
    [][\A l \in LoteIds :
          lotes[l].status \in TerminalLote => lotes'[l].status = lotes[l].status]_vars

W4_ConcluidoComLeaseExpirada ==
    \E l \in LoteIds :
        /\ lotes[l].status = "CONCLUIDO"
        /\ lease[l].st = "expired"
        /\ Len(itens[l]) > 0

\* C5: an item changes only from PENDENTE, and only to VALIDO, DIVERGENTE or
\* FAILED; a terminal item keeps its status and its outcome fields for ever.
C5_ItemMudaUmaVez ==
    [][\A l \in LoteIds : \A i \in ItemIds(l) :
          itens'[l][i] # itens[l][i] =>
              /\ Pendente(l, i)
              /\ itens'[l][i].status_validacao \in {"VALIDO", "DIVERGENTE", "FAILED"}]_vars

W5_RerunComItemTerminal ==
    \E w \in Workers :
        /\ wk[w].run = 2
        /\ wk[w].pc = "loop"
        /\ wk[w].itens = <<2>>
        /\ itens[wk[w].lote][1].status_validacao = "DIVERGENTE"

\* C6: the classifier is never called for an item that is already terminal,
\* in any run, a rerun after recover included.
C6_SoPendentesClassificados ==
    ~reinvocado

W6_RerunChamaClassificador ==
    \E w \in Workers :
        /\ wk[w].run = 2
        /\ wk[w].pc = "update"
        /\ wk[w].itens = <<2>>
        /\ ~Pendente(wk[w].lote, 1)

\* C7: a second run on the same Lote that ends normally leaves what a single
\* successful run leaves: the Lote CONCLUIDO, every item VALIDO or DIVERGENTE
\* with its outcome fields set and its input fields as submitted.
C7_SegundaExecucaoMesmoFim ==
    \A w \in Workers :
        (wk[w].pc = "ack" /\ wk[w].ok /\ wk[w].run >= 2) =>
            LET l == wk[w].lote
            IN  /\ lotes[l].status = "CONCLUIDO"
                /\ Len(itens[l]) = lotes[l].total_itens
                /\ \A i \in ItemIds(l) :
                      /\ itens[l][i].status_validacao \in {"VALIDO", "DIVERGENTE"}
                      /\ itens[l][i].ncm_sugerido # NULL
                      /\ itens[l][i].motivo_divergencia # NULL
                      /\ itens[l][i].confianca_ai # NoNumber
                      /\ itens[l][i].status_validacao = "VALIDO" =>
                             itens[l][i].ncm_sugerido = itens[l][i].ncm_original
                      /\ [descricao |-> itens[l][i].descricao,
                          ncm |-> itens[l][i].ncm_original] \in CSVRows

W7_SegundaExecucaoTerminou ==
    \E w \in Workers :
        /\ wk[w].pc = "ack"
        /\ wk[w].ok
        /\ wk[w].run = 2
        /\ Len(itens[wk[w].lote]) = 2
        /\ escritas[wk[w].lote] = <<1, 1>>

\* C8: at most one runner is at work on a Lote, it is the holder of the
\* lease, and at most one job of the Lote is waiting or claimed.
C8_UmRunnerPorLote ==
    \A l \in LoteIds :
        /\ Cardinality(Ativos(l)) <= 1
        /\ fila[l] + (IF lease[l].st = "held" THEN 1 ELSE 0) <= 1
        /\ lease[l].st = "held" <=> Ativos(l) # {}
        /\ lease[l].st = "held" => Ativos(l) = {lease[l].by}

W8_DoisRunnersDoisLotes ==
    /\ \A l \in LoteIds : lease[l].st = "held"
    /\ \E l \in LoteIds : execucoes[l] = 2
    /\ \A w \in Workers : wk[w].pc = "update"

\* C9: no item is written more than once, and the items loaded by the
\* runs at work are assigned once: no item is in two workers' lists, or twice
\* in one list.
C9_ItemDeUmSoWorker ==
    /\ \A l \in LoteIds : \A i \in ItemIds(l) : escritas[l][i] <= 1
    /\ \A w \in Workers :
          Cardinality(RangeOf(wk[w].itens)) = Len(wk[w].itens)
    /\ \A w, v \in Workers :
          (w # v /\ wk[w].lote = wk[v].lote) =>
              RangeOf(wk[w].itens) \cap RangeOf(wk[v].itens) = {}

W9_RerunEscreveORestante ==
    \E l \in LoteIds :
        /\ lotes[l].status = "CONCLUIDO"
        /\ execucoes[l] = 2
        /\ Len(itens[l]) = 2
        /\ \A i \in ItemIds(l) : escritas[l][i] = 1

\* C10: a Lote left PROCESSANDO by a crashed runner, some items terminal, is
\* in the end brought to a terminal status by a recovered run; and a rerun
\* whose classifier calls all succeed ends CONCLUIDO, having called the
\* classifier for no item that was already terminal.
Abandonado(l) ==
    /\ lotes[l].status = "PROCESSANDO"
    /\ lease[l].st = "orphan"
    /\ \E i \in ItemIds(l) : ~Pendente(l, i)
    /\ \E i \in ItemIds(l) : Pendente(l, i)

Consultou(l) == resposta' # resposta /\ resposta'.lote = l
Arredondado(num, den) == (2 * num + den) \div (2 * den)

\* C11: across successive polls of one Lote the itens_processados answered
\* never decreases, whatever runs, crashes and recoveries come in between.
C11_ProcessadosNaoDiminui ==
    [][\A l \in LoteIds :
          (/\ resposta.http = 200 /\ resposta.lote = l
           /\ resposta'.http = 200 /\ resposta'.lote = l) =>
              resposta'.itens_processados >= resposta.itens_processados]_vars

W11_ConsultaAposCrash ==
    /\ resposta.http = 200
    /\ resposta.status = "PROCESSANDO"
    /\ resposta.itens_processados = 1
    /\ execucoes[resposta.lote] = 2
    /\ itens_processados(resposta.lote) = 2

\* C12: every poll of an existing Lote answers with itens_processados = the
\* number of its items not PENDENTE and with a whole-number percentage
\* round(processados / total * 100), which is 0 when total_itens = 0.
C12_ProgressoArredondado ==
    [][\A l \in LoteIds :
          (Consultou(l) /\ lotes[l].status # "NONE") =>
              /\ resposta'.http = 200
              /\ resposta'.itens_processados = itens_processados(l)
              /\ resposta'.total_itens = 0 =>
                     resposta'.progresso.num = 0
              /\ resposta'.total_itens > 0 =>
                     resposta'.progresso.num =
                         resposta'.progresso.den *
                         Arredondado(resposta'.itens_processados * 100,
                                     resposta'.total_itens)]_vars

\* C13: the answer of a poll is a function of the persisted rows of the Lote
\* alone: it carries the status and total_itens of the row and counts every
\* item committed as not PENDENTE, while the run is still going and after the
\* runner died with its locals.
C13_StatusSoDasLinhas ==
    [][\A l \in LoteIds :
          (Consultou(l) /\ resposta'.http = 200) =>
              /\ resposta'.status = lotes[l].status
              /\ resposta'.total_itens = lotes[l].total_itens
              /\ resposta'.itens_processados =
                     Cardinality({ i \in ItemIds(l) : ~Pendente(l, i) })
              /\ \A w \in Ativos(l) :
                     wk[w].pc = "loop" =>
                         resposta'.itens_processados >=
                             lotes[l].total_itens - Len(wk[w].itens)]_vars

W13_ConsultaSemRunner ==
    /\ resposta.http = 200
    /\ resposta.status = "PROCESSANDO"
    /\ resposta.itens_processados = 1
    /\ resposta.total_itens = 2
    /\ lease[resposta.lote].st = "orphan"
    /\ Ativos(resposta.lote) = {}

\* C14: a poll writes nothing: the rows of every Lote and item and the job
\* queue are the same after it as before.
C14_ConsultaNaoEscreve ==
    [][(\E l \in LoteIds : Consultou(l)) =>
          /\ lotes' = lotes
          /\ itens' = itens
          /\ fila' = fila
          /\ lease' = lease]_vars

W14_ConsultaComLoteCompleto ==
    /\ resposta.http = 200
    /\ resposta.status = "PROCESSANDO"
    /\ resposta.itens_processados = resposta.total_itens
    /\ lotes[resposta.lote].status = "PROCESSANDO"

\* C15: an item is PENDENTE iff its ncm_sugerido, confianca_ai and
\* data_processamento are all null, whatever status it ended in.
C15_PendenteSseCamposNulos ==
    \A l \in LoteIds : \A i \in ItemIds(l) :
        Pendente(l, i) <=>
            /\ itens[l][i].ncm_sugerido = NULL
            /\ itens[l][i].confianca_ai = NoNumber
            /\ itens[l][i].data_processamento = NULL

W15_ValidoDivergenteEPendente ==
    /\ \A l \in LoteIds : Len(itens[l]) = 2
    /\ itens[1][1].status_validacao = "VALIDO"
    /\ itens[1][2].status_validacao = "PENDENTE"
    /\ itens[2][1].status_validacao = "DIVERGENTE"
    /\ lotes[1].status = "ERRO"

\* C16: every Lote that exists has exactly total_itens items linked to it: a
\* Lote is never there without all of its items.
C16_LoteComTodosOsItens ==
    \A l \in LoteIds :
        lotes[l].status # "NONE" => Len(itens[l]) = lotes[l].total_itens

\* C17: a job waiting or claimed always refers to a Lote that exists with all
\* of its items; the upload schedules the task once, as its last step, for a
\* Lote that never had a job, and a Lote whose upload is over has had its job.
Enviando(l) == up.pc # "idle" /\ up.lote = l

C17_AgendadoUmaVezDepoisDeSalvar ==
    /\ [](\A l \in LoteIds :
             /\ (fila[l] > 0 \/ lease[l].st # "none") =>
                    /\ lotes[l].status # "NONE"
                    /\ Len(itens[l]) = lotes[l].total_itens
             /\ (lotes[l].status # "NONE" /\ ~Enviando(l)) =>
                    fila[l] + execucoes[l] >= 1)
    /\ [][\A l \in LoteIds :
             fila'[l] > fila[l] =>
                 \/ lease[l].st = "expired"
                 \/ /\ Enviando(l) /\ ~Enviando(l)'
                    /\ Len(itens[l]) = lotes[l].total_itens
                    /\ fila[l] + execucoes[l] = 0
                    /\ fila'[l] = 1]_vars

W17_JobDeLoteCompleto ==
    \E l \in LoteIds :
        /\ fila[l] = 1
        /\ execucoes[l] = 0
        /\ ~Enviando(l)
        /\ lotes[l].status = "PENDENTE"
        /\ Len(itens[l]) = 2

\* C18: a Lote in ERRO has every one of its items still PENDENTE: the run
\* that failed touched no item.
C18_ErroSemItensTocados ==
    \A l \in LoteIds :
        lotes[l].status = "ERRO" => \A i \in ItemIds(l) : Pendente(l, i)

\* C19: when the classifier call for an item failed, the item of that call
\* ends FAILED, with no verdict stored on it.
C19_FalhaNaoEVeredito ==
    \A w \in Workers :
        (wk[w].erro /\ wk[w].pc = "ack") =>
            LET item == itens[wk[w].lote][Head(wk[w].itens)]
            IN  /\ item.status_validacao = "FAILED"
                /\ item.ncm_sugerido = NULL
                /\ item.confianca_ai = NoNumber

\* C20: the item is written from the answer of the classifier: correto gives
\* VALIDO with ncm_sugerido = ncm_original; not correto gives DIVERGENTE with
\* the suggestion and the explanation of the classifier.
C20_VereditoGravado ==
    [][\A w \in Workers :
          (wk[w].pc = "update" /\ wk'[w].pc = "loop") =>
              LET l == wk[w].lote
                  i == Head(wk[w].itens)
                  r == wk[w].resposta_ai
              IN  /\ r.correto =>
                         /\ itens'[l][i].status_validacao = "VALIDO"
                         /\ itens'[l][i].ncm_sugerido = itens[l][i].ncm_original
                  /\ ~r.correto =>
                         /\ itens'[l][i].status_validacao = "DIVERGENTE"
                         /\ itens'[l][i].ncm_sugerido = r.ncm_sugerido
                         /\ itens'[l][i].motivo_divergencia = r.explicacao
                  /\ itens'[l][i].ncm_original = itens[l][i].ncm_original]_vars

W20_ValidoEDivergenteGravados ==
    \E l \in LoteIds :
        /\ Len(itens[l]) = 2
        /\ itens[l][1].status_validacao = "VALIDO"
        /\ itens[l][1].ncm_sugerido = "0102.31.00"
        /\ itens[l][2].status_validacao = "DIVERGENTE"
        /\ itens[l][2].ncm_sugerido = "1806.32.00"
        /\ itens[l][2].motivo_divergencia # NULL

\* C21: the ncm_original of an item is the text of the CSV row, leading zero
\* and dots included, and no step ever changes it: not the upload, the
\* classifier call, the write of the result, a crash or a recovered run.
C21_NcmOriginalIntacto ==
    /\ [](\A l \in LoteIds : \A i \in ItemIds(l) :
             /\ itens[l][i].ncm_original \in { linha.ncm : linha \in CSVRows }
             /\ Enviando(l) => itens[l][i].ncm_original = up.linhas[i].ncm)
    /\ [][\A l \in LoteIds : \A i \in ItemIds(l) :
             itens'[l][i].ncm_original = itens[l][i].ncm_original]_vars

W21_NcmAposRecuperacao ==
    \E l \in LoteIds :
        /\ execucoes[l] = 2
        /\ lotes[l].status = "CONCLUIDO"
        /\ Len(itens[l]) = 2
        /\ itens[l][1].ncm_original = "0102.31.00"
        /\ itens[l][1].ncm_sugerido = "1806.32.00"
        /\ itens[l][2].ncm_original = "0102.31.00"
        /\ itens[l][2].status_validacao = "VALIDO"

\* C22: once a run in which a classifier call failed is over, the client can
\* list the failed items of the Lote: some listing answers with at least one
\* item, all of them FAILED and carrying the cause.
C22_ListaOsFalhados ==
    \A w \in Workers :
        (wk[w].pc = "ack" /\ wk[w].erro) =>
            \E apenas_divergentes \in BOOLEAN :
                LET lista == listar_itens(wk[w].lote, apenas_divergentes)
                IN  /\ lista # <<>>
                    /\ \A k \in 1..Len(lista) :
                          /\ lista[k].status_validacao = "FAILED"
                          /\ lista[k].motivo_divergencia # NULL

\* C23: when the worker process goes down in the middle of a run, the step
\* writes no item, the run is over (no further classifier call of it), and
\* every item it had not yet written, the one whose call was in flight
\* included, is PENDENTE with no part of a result on it; these items are
\* then picked up by a recovered run.
Derrubado(w) == wk[w].pc # "idle" /\ wk'[w].pc = "idle" /\ crashes' = crashes + 1

Interrompido(l) ==
    /\ lease[l].st = "orphan"
    /\ lotes[l].status = "PROCESSANDO"
    /\ \E i \in ItemIds(l) : Pendente(l, i)

Retomado(l) ==
    \E w \in Workers :
        /\ wk[w].lote = l
        /\ wk[w].run >= 2
        /\ wk[w].itens # <<>>
        /\ RangeOf(wk[w].itens) = { i \in ItemIds(l) : Pendente(l, i) }

Chamando(w) == wk[w].pc = "loop" /\ wk[w].itens # <<>>

C24_ChamadaSempreTermina ==
    \A w \in Workers : Chamando(w) ~> ~Chamando(w)

\* C25: a Lote whose upload is over and that never had a job is one whose
\* upload ended in an error to the caller: a failed enqueue is not answered
\* with 202, and a Lote answered with 202 has had its job.
C25_FalhaDeFilaPropagada ==
    \A l \in LoteIds :
        (lotes[l].status # "NONE" /\ ~Enviando(l)) =>
            /\ fila[l] + execucoes[l] = 0 => l \in recusados
            /\ l \in recusados => fila[l] + execucoes[l] = 0

W25_UploadRecusado ==
    /\ 1 \in recusados
    /\ lotes[1].status = "PENDENTE"
    /\ Len(itens[1]) = 2
    /\ fila[1] = 0
    /\ lotes[2].status = "CONCLUIDO"

\* C26: once the page has received a status with a terminal state of the
\* Lote, no further poll of that Lote can be issued by it.
C26_TerminalParaOPolling ==
    \A l \in LoteIds :
        (resposta.http = 200 /\ resposta.lote = l /\ resposta.status \in TerminalLote) =>
            ~ENABLED Refetch(l)

W26_PaginaRecebeuErro ==
    /\ resposta.http = 200
    /\ resposta.status = "ERRO"
    /\ resposta.itens_processados = 1
    /\ lotes[resposta.lote].status = "ERRO"

\* C27: every item that is DIVERGENTE has an ncm_sugerido different from its
\* ncm_original, whatever the classifier answered.
C27_DivergenteTemOutroNcm ==
    \A l \in LoteIds : \A i \in ItemIds(l) :
        itens[l][i].status_validacao = "DIVERGENTE" =>
            itens[l][i].ncm_sugerido # itens[l][i].ncm_original

\* C28: with runners, lease expiry and recover scheduled fairly and every
\* classifier call returning, every Lote whose upload was accepted reaches a
\* terminal status in the end, whatever crashes occur.
Aceito(l) == lotes[l].status # "NONE" /\ ~Enviando(l)

C28_TodoLoteTermina ==
    \A l \in LoteIds : Aceito(l) ~> (lotes[l].status \in TerminalLote)

\* C29: while the last status the page received is not terminal (PENDENTE or
\* PROCESSANDO), the page goes on polling.
C29_PollingAteTerminal ==
    (resposta.http = 200 /\ resposta.status \in {"PENDENTE", "PROCESSANDO"}) =>
        ENABLED Refetch(resposta.lote)

\* ------------------------------------------------- UploadCSV (the upload card)

varsServidor == <<lotes, itens, up, fila, lease, wk, execucoes, escritas, reinvocado,
                  crashes, resposta, recusados>>

\* The files the user can pick, as name and extension.
Arquivos == {[name |-> "produtos", ext |-> ".csv"], [name |-> "cadastro", ext |-> ".csv"],
             [name |-> "planilha", ext |-> ".xlsx"]}

DragTypes == {"dragenter", "dragover", "dragleave"}

handleDrag(type) ==
    /\ tela' = IF type \in {"dragenter", "dragover"} THEN [tela EXCEPT !.dragActive = TRUE]
               ELSE IF type = "dragleave" THEN [tela EXCEPT !.dragActive = FALSE]
               ELSE tela
    /\ UNCHANGED varsServidor

\* The state handleFileChange leaves, from the state t it runs in.
fileChanged(t, selectedFile) ==
    IF selectedFile.ext # ".csv"
    THEN [t EXCEPT !.error = "Por favor, selecione um arquivo CSV"]
    ELSE [t EXCEPT !.file = <<selectedFile>>, !.error = NULL]

handleDrop(files) ==
    /\ tela' = IF files # <<>>
               THEN fileChanged([tela EXCEPT !.dragActive = FALSE], files[1])
               ELSE [tela EXCEPT !.dragActive = FALSE]
    /\ UNCHANGED varsServidor

\* What the rejected promise of uploadCSV carries: err.response?.data?.detail
\* and err.message, "" where absent.
Erros == {[detail |-> "Erro ao salvar o lote", message |-> "Request failed with status code 500"],
          [detail |-> "", message |-> "Network Error"],
          [detail |-> "", message |-> ""]}

errorMessage(err) ==
    IF err.detail # "" THEN err.detail
    ELSE IF err.message # "" THEN err.message
    ELSE "Erro ao fazer upload do arquivo"

handleFileChange(selectedFile) ==
    /\ tela' = fileChanged(tela, selectedFile)
    /\ UNCHANGED varsServidor

\* The button is rendered only with a file and is disabled while uploading;
\* the handler runs up to its await.
handleUpload ==
    /\ tela.file # <<>>
    /\ ~tela.uploading
    /\ tela.pc = "idle"
    /\ tela' = IF tela.file = <<>>
               THEN [tela EXCEPT !.error = "Selecione um arquivo primeiro"]
               ELSE [tela EXCEPT !.uploading = TRUE, !.error = NULL, !.pc = "await",
                                 !.enviado = tela.file, !.resultado = "nenhum", !.chamadas = <<>>]
    /\ UNCHANGED varsServidor

\* uploadCSV resolved with response.data: the rest of the try block, then finally.
handleUploadThen(response) ==
    /\ tela.pc = "await"
    /\ tela' = [tela EXCEPT !.chamadas = Append(@, response.lote_id), !.file = <<>>,
                            !.uploading = FALSE, !.pc = "idle", !.resultado = "sucesso"]
    /\ UNCHANGED varsServidor

\* Variant: setUploading(false) at the end of the try block, no finally.
handleUploadCatchSemFinally(err) ==
    /\ tela.pc = "await"
    /\ tela' = [tela EXCEPT !.error = errorMessage(err), !.pc = "idle", !.resultado = "falha"]
    /\ UNCHANGED varsServidor

\* uploadCSV rejected (it rethrows what axios threw): catch, then finally.
handleUploadCatch(err) ==
    /\ tela.pc = "await"
    /\ tela' = [tela EXCEPT !.error = errorMessage(err), !.uploading = FALSE,
                            !.pc = "idle", !.resultado = "falha"]
    /\ UNCHANGED varsServidor

NextUploadCSV ==
    \/ \E type \in DragTypes : handleDrag(type)
    \/ \E files \in {<<>>} \cup {<<f>> : f \in Arquivos} : handleDrop(files)
    \/ \E f \in Arquivos : handleFileChange(f)
    \/ handleUpload
    \/ \E l \in LoteIds : handleUploadThen([lote_id |-> l])
    \/ \E err \in Erros : handleUploadCatch(err)

SpecUploadCSV == Init /\ [][NextUploadCSV]_vars

\* C30: the step that completes a handleUpload call leaves uploading false; on
\* success it has called onUploadSuccess once, with the lote_id of the answer,
\* and set no error message; on failure it has not called onUploadSuccess, an
\* error message is set and the selected file is still selected.
C30_UploadSempreDesliga ==
    [][(tela.pc = "await" /\ tela'.pc = "idle") =>
          /\ ~tela'.uploading
          /\ tela'.resultado \in {"sucesso", "falha"}
          /\ tela'.resultado = "sucesso" =>
                /\ Len(tela'.chamadas) = 1
                /\ tela'.chamadas[1] \in LoteIds
                /\ tela'.error = tela.error
          /\ tela'.resultado = "falha" =>
                /\ tela'.chamadas = <<>>
                /\ tela'.error # NULL
                /\ tela'.file = tela.file
                /\ tela'.file # <<>>]_vars

W30_FalhaComArquivoMantido ==
    /\ tela.pc = "idle"
    /\ tela.resultado = "falha"
    /\ ~tela.uploading
    /\ tela.error = "Network Error"
    /\ tela.file # <<>>

====
